---- MODULE Spec2Model ----
(***************************************************************************)
(* Request-dispatch pipeline of the HTTP proxy (src/src/main.rs).          *)
(*                                                                         *)
(* Strings are sequences of one-character strings, byte strings are        *)
(* sequences of integers in 0..255.  An Option is the record None or       *)
(* Some(x).  A bot identity (UserId, a u64) is kept as its canonical       *)
(* decimal digit sequence, so that its full 64-bit range is represented.   *)
(***************************************************************************)
EXTENDS Integers, Sequences, FiniteSets, Bags, TLC

None == [some |-> FALSE]
Some(x) == [some |-> TRUE, v |-> x]

(***************************************************************************)
(* Bounds of the model.                                                    *)
(***************************************************************************)
\* number of request tasks that may be in flight together
MaxTasks == 2
\* longest identity segment (in characters) enumerated for credentials
MaxSegLen == 2

(***************************************************************************)
(* String helpers (Rust str methods used by handle_request).               *)
(***************************************************************************)
starts_with(s, p) == Len(s) >= Len(p) /\ SubSeq(s, 1, Len(p)) = p

Drop(s, n) == SubSeq(s, n + 1, Len(s))

\* str::replace: every non-overlapping occurrence, scanning left to right
RECURSIVE replace(_, _, _)
replace(s, from, to) ==
    IF s = <<>> THEN <<>>
    ELSE IF starts_with(s, from) THEN to \o replace(Drop(s, Len(from)), from, to)
    ELSE <<Head(s)>> \o replace(Tail(s), from, to)

\* s.split(d).next().unwrap(): the text before the first delimiter d
RECURSIVE split_first(_, _)
split_first(s, d) ==
    IF s = <<>> \/ Head(s) = d THEN <<>>
    ELSE <<Head(s)>> \o split_first(Tail(s), d)

\* s.split(d) collected: all the pieces
RECURSIVE split(_, _)
split(s, d) ==
    LET first == split_first(s, d)
    IN  IF Len(first) = Len(s) THEN <<first>>
        ELSE <<first>> \o split(Drop(s, Len(first) + 1), d)

Digits == <<"0", "1", "2", "3", "4", "5", "6", "7", "8", "9">>

\* format!("{}", n) of a natural number
RECURSIVE to_string(_)
to_string(n) ==
    IF n < 10 THEN <<Digits[n + 1]>>
    ELSE to_string(n \div 10) \o <<Digits[(n % 10) + 1]>>

\* twilight_http::API_VERSION
API_VERSION == 6

\* format!("/api/v{}/", API_VERSION)
api_url == <<"/", "a", "p", "i", "/", "v">> \o to_string(API_VERSION) \o <<"/">>

(***************************************************************************)
(* base64::decode with the standard alphabet.  Trailing '=' padding is     *)
(* accepted up to the canonical amount and may be omitted; the unused low  *)
(* bits of the last symbol must be zero.                                   *)
(***************************************************************************)
B64Alphabet ==
    <<"A", "B", "C", "D", "E", "F", "G", "H", "I", "J", "K", "L", "M",
      "N", "O", "P", "Q", "R", "S", "T", "U", "V", "W", "X", "Y", "Z",
      "a", "b", "c", "d", "e", "f", "g", "h", "i", "j", "k", "l", "m",
      "n", "o", "p", "q", "r", "s", "t", "u", "v", "w", "x", "y", "z",
      "0", "1", "2", "3", "4", "5", "6", "7", "8", "9", "+", "/">>

IsB64Symbol(c) == \E i \in 1..64 : B64Alphabet[i] = c

B64Value(c) == (CHOOSE i \in 1..64 : B64Alphabet[i] = c) - 1

RECURSIVE TrailingPads(_)
TrailingPads(s) ==
    IF s = <<>> \/ s[Len(s)] # "=" THEN 0
    ELSE 1 + TrailingPads(SubSeq(s, 1, Len(s) - 1))

\* the bytes of a run of sextets (complete quads, then a tail of 2 or 3)
RECURSIVE B64Bytes(_)
B64Bytes(v) ==
    IF Len(v) >= 4
    THEN << v[1] * 4 + v[2] \div 16,
            (v[2] % 16) * 16 + v[3] \div 4,
            (v[3] % 4) * 64 + v[4] >> \o B64Bytes(Drop(v, 4))
    ELSE IF Len(v) = 3
    THEN << v[1] * 4 + v[2] \div 16, (v[2] % 16) * 16 + v[3] \div 4 >>
    ELSE IF Len(v) = 2
    THEN << v[1] * 4 + v[2] \div 16 >>
    ELSE <<>>

B64TrailingBits(v) ==
    IF Len(v) % 4 = 3 THEN v[Len(v)] % 4
    ELSE IF Len(v) % 4 = 2 THEN v[Len(v)] % 16
    ELSE 0

\* Result of base64::decode: Some(bytes) or None (DecodeError)
base64_decode(s) ==
    LET p    == TrailingPads(s)
        syms == SubSeq(s, 1, Len(s) - p)
        n    == Len(syms)
    IN  IF /\ \A i \in 1..n : IsB64Symbol(syms[i])
           /\ n % 4 # 1
           /\ p <= (4 - (n % 4)) % 4
        THEN LET v == [i \in 1..n |-> B64Value(syms[i])]
             IN  IF B64TrailingBits(v) = 0 THEN Some(B64Bytes(v)) ELSE None
        ELSE None

(***************************************************************************)
(* str::from_utf8: well-formed UTF-8 only (no overlong forms, no           *)
(* surrogates, nothing above U+10FFFF).                                    *)
(***************************************************************************)
IsCont(b) == b >= 128 /\ b <= 191

RECURSIVE IsUtf8(_)
IsUtf8(b) ==
    IF b = <<>> THEN TRUE
    ELSE LET b1 == b[1]
             n  == Len(b)
         IN  IF b1 < 128 THEN IsUtf8(Tail(b))
             ELSE IF b1 >= 194 /\ b1 <= 223
             THEN n >= 2 /\ IsCont(b[2]) /\ IsUtf8(Drop(b, 2))
             ELSE IF b1 >= 224 /\ b1 <= 239
             THEN /\ n >= 3
                  /\ IsCont(b[2]) /\ IsCont(b[3])
                  /\ (b1 = 224 => b[2] >= 160)
                  /\ (b1 = 237 => b[2] <= 159)
                  /\ IsUtf8(Drop(b, 3))
             ELSE IF b1 >= 240 /\ b1 <= 244
             THEN /\ n >= 4
                  /\ IsCont(b[2]) /\ IsCont(b[3]) /\ IsCont(b[4])
                  /\ (b1 = 240 => b[2] >= 144)
                  /\ (b1 = 244 => b[2] <= 143)
                  /\ IsUtf8(Drop(b, 4))
             ELSE FALSE

(***************************************************************************)
(* str::parse::<u64>: an optional '+', then one or more ASCII digits, the  *)
(* value at most u64::MAX.  The value is returned as its canonical digit   *)
(* sequence (no leading zeros).                                            *)
(***************************************************************************)
U64Max == <<1, 8, 4, 4, 6, 7, 4, 4, 0, 7, 3, 7, 0, 9, 5, 5, 1, 6, 1, 5>>

IsDigitByte(b) == b >= 48 /\ b <= 57

RECURSIVE StripZeros(_)
StripZeros(d) ==
    IF Len(d) > 1 /\ d[1] = 0 THEN StripZeros(Tail(d)) ELSE d

\* d <= e for digit sequences of the same length
RECURSIVE DigitsLeq(_, _)
DigitsLeq(d, e) ==
    IF d = <<>> THEN TRUE
    ELSE IF d[1] # e[1] THEN d[1] < e[1]
    ELSE DigitsLeq(Tail(d), Tail(e))

parse_u64(text) ==
    LET body == IF text # <<>> /\ text[1] = 43 THEN Tail(text) ELSE text
    IN  IF body = <<>> \/ \E i \in 1..Len(body) : ~IsDigitByte(body[i])
        THEN None
        ELSE LET d == StripZeros([i \in 1..Len(body) |-> body[i] - 48])
             IN  IF Len(d) < Len(U64Max) \/ (Len(d) = Len(U64Max) /\ DigitsLeq(d, U64Max))
                 THEN Some(d)
                 ELSE None

(***************************************************************************)
(* Inbound requests.  A request is [method, uri, authorization, body]:     *)
(* uri is the request target's path-and-query (None for an authority-form  *)
(* target), authorization the Authorization header's value if present.     *)
(***************************************************************************)
\* stands for a header byte outside visible ASCII
OBS == "<80>"

VisibleAscii ==
    {B64Alphabet[i] : i \in 1..64} \cup {"=", ".", " ", "!", "-", "_", "?", "&"}

\* to_str that accepts any bytes (a lossy conversion)
to_str_lossy(value) == Some(value)

\* HeaderValue::to_str
to_str(value) ==
    IF \A i \in 1..Len(value) : value[i] \in VisibleAscii THEN Some(value) ELSE None

\* Uri::path: the target up to the first '?', "" when there is no path
uri_path(uri) == IF uri.some THEN split_first(uri.v, "?") ELSE <<>>

MetricsPath == <<"/", "m", "e", "t", "r", "i", "c", "s">>

(***************************************************************************)
(* convert_method                                                          *)
(***************************************************************************)
\* convert_method that lets any other method through as a GET
convert_method_lenient(method) ==
    CASE method = "DELETE" -> Some("Delete")
      [] method = "PATCH"  -> Some("Patch")
      [] method = "POST"   -> Some("Post")
      [] method = "PUT"    -> Some("Put")
      [] OTHER             -> Some("Get")

convert_method(method) ==
    CASE method = "DELETE" -> Some("Delete")
      [] method = "GET"    -> Some("Get")
      [] method = "PATCH"  -> Some("Patch")
      [] method = "POST"   -> Some("Post")
      [] method = "PUT"    -> Some("Put")
      [] OTHER             -> None

(***************************************************************************)
(* Route resolution, Path::try_from((method, path)): the path is split on  *)
(* '/' (a leading '/' is skipped) and matched against the route shapes.    *)
(***************************************************************************)
S_gateway == <<"g", "a", "t", "e", "w", "a", "y">>
S_bot == <<"b", "o", "t">>
S_channels == <<"c", "h", "a", "n", "n", "e", "l", "s">>
S_messages == <<"m", "e", "s", "s", "a", "g", "e", "s">>

IsId(part) ==
    part # <<>> /\ \A i \in 1..Len(part) : \E d \in 1..10 : Digits[d] = part[i]

Path_try_from(method, s) ==
    LET all   == split(s, "/")
        parts == IF starts_with(s, <<"/">>) THEN Tail(all) ELSE all
        n     == Len(parts)
    IN  IF n = 1 /\ parts[1] = S_gateway
        THEN Some([kind |-> "Gateway"])
        ELSE IF n = 2 /\ parts[1] = S_gateway /\ parts[2] = S_bot
        THEN Some([kind |-> "GatewayBot"])
        ELSE IF n = 2 /\ parts[1] = S_channels /\ IsId(parts[2])
        THEN Some([kind |-> "ChannelsId", id |-> parts[2]])
        ELSE IF n = 3 /\ parts[1] = S_channels /\ IsId(parts[2]) /\ parts[3] = S_messages
        THEN Some([kind |-> "ChannelsIdMessages", id |-> parts[2]])
        ELSE IF n = 4 /\ parts[1] = S_channels /\ IsId(parts[2]) /\ parts[3] = S_messages
        THEN Some([kind |-> "ChannelsIdMessagesId", method |-> method, id |-> parts[2]])
        ELSE None

path_name(path) ==
    CASE path.kind = "ChannelsId"           -> "Channel"
      [] path.kind = "ChannelsIdMessages"   -> "Channel message"
      [] path.kind = "ChannelsIdMessagesId" -> "Channel message"
      [] path.kind = "Gateway"              -> "Gateway"
      [] path.kind = "GatewayBot"           -> "Gateway bot info"
      [] OTHER                              -> "Unknown path!"

\* lines 185-189: the path handed to route resolution
trimmed_path(uri) ==
    IF starts_with(uri_path(uri), api_url)
    THEN replace(uri_path(uri), api_url, <<>>)
    ELSE uri_path(uri)

\* lines 210-217: the literal path-and-query sent upstream
path_and_query(uri) ==
    IF uri.some THEN Some(replace(uri.v, api_url, <<>>)) ELSE None

(***************************************************************************)
(* Identity extraction, lines 196-208.  The outcome is                     *)
(* [ok |-> TRUE, token, bot_id] or [ok |-> FALSE, err].                    *)
(***************************************************************************)
Bot_ == <<"B", "o", "t", " ">>

\* strip_bot that cuts one character short (token[3..])
strip_bot_short(token) == IF starts_with(token, Bot_) THEN Drop(token, 3) ELSE token

\* lines 202-204
strip_bot(token) == IF starts_with(token, Bot_) THEN Drop(token, 4) ELSE token

\* decode_id that parses the number before it checks the text's encoding
decode_id_reordered(token) ==
    LET id_b64   == split_first(token, ".")
        id_bytes == base64_decode(id_b64)
    IN  IF ~id_bytes.some THEN [ok |-> FALSE, err |-> "Base64Error"]
        ELSE LET n == parse_u64(id_bytes.v)
             IN  IF ~n.some THEN [ok |-> FALSE, err |-> "ParseError"]
                 ELSE IF ~IsUtf8(id_bytes.v) THEN [ok |-> FALSE, err |-> "EncodingError"]
                 ELSE [ok |-> TRUE, token |-> token, bot_id |-> n.v]

\* decode_id that rejects a token holding no '.' delimiter
decode_id_needs_dot(token) ==
    IF \A i \in 1..Len(token) : token[i] # "."
    THEN [ok |-> FALSE, err |-> "Base64Error"]
    ELSE LET id_b64   == split_first(token, ".")
             id_bytes == base64_decode(id_b64)
         IN  IF ~id_bytes.some THEN [ok |-> FALSE, err |-> "Base64Error"]
             ELSE IF ~IsUtf8(id_bytes.v) THEN [ok |-> FALSE, err |-> "EncodingError"]
             ELSE LET n == parse_u64(id_bytes.v)
                  IN  IF ~n.some THEN [ok |-> FALSE, err |-> "ParseError"]
                      ELSE [ok |-> TRUE, token |-> token, bot_id |-> n.v]
\* lines 206-208, on the token left after the prefix is stripped
decode_id(token) ==
    LET id_b64   == split_first(token, ".")
        id_bytes == base64_decode(id_b64)
    IN  IF ~id_bytes.some THEN [ok |-> FALSE, err |-> "Base64Error"]
        ELSE IF ~IsUtf8(id_bytes.v) THEN [ok |-> FALSE, err |-> "EncodingError"]
        ELSE LET n == parse_u64(id_bytes.v)
             IN  IF ~n.some THEN [ok |-> FALSE, err |-> "ParseError"]
                 ELSE [ok |-> TRUE, token |-> token, bot_id |-> n.v]

\* lines 196-208
extract_identity(authorization) ==
    LET text == IF authorization.some THEN to_str(authorization.v) ELSE None
    IN  IF ~text.some THEN [ok |-> FALSE, err |-> "MissingAuthorization"]
        ELSE decode_id(strip_bot(text.v))

(***************************************************************************)
(* State.                                                                  *)
(***************************************************************************)
VARIABLES
    expose_metrics, \* whether the "expose-metrics" feature is compiled in
    clients,        \* the registry: bot identity -> client handle
    lock,           \* the task holding the registry mutex, 0 when free
    constructed,    \* every Client::new so far, in order: [token, bot_id]
    tasks,          \* each request task's position and local variables
    acquired,       \* each task's number of clients.lock() calls
    upstream,       \* each task's calls of client.raw, in order
    outbound,       \* what the HTTP server sent on each task's connection
    HISTOGRAM       \* the observations recorded, a bag of <<method, route, status>>

vars == <<expose_metrics, clients, lock, constructed, tasks, acquired,
          upstream, outbound, HISTOGRAM>>

Tasks == 1..MaxTasks

Fresh ==
    [pc |-> "Idle", handler |-> "none", request |-> None, converted_method |-> None, path |-> None,
     bytes |-> None, token |-> None, bot_id |-> None, raw_request |-> None,
     client |-> None, resp |-> None, result |-> None]

Ok(status) == [ok |-> TRUE, status |-> status]
Err(kind) == [ok |-> FALSE, err |-> kind]

Init ==
    /\ expose_metrics \in BOOLEAN
    /\ clients = <<>>
    /\ lock = 0
    /\ constructed = <<>>
    /\ tasks = [r \in Tasks |-> Fresh]
    /\ acquired = [r \in Tasks |-> 0]
    /\ upstream = [r \in Tasks |-> <<>>]
    /\ outbound = [r \in Tasks |-> [kind |-> "pending"]]
    /\ HISTOGRAM = EmptyBag

(***************************************************************************)
(* What the server does with the handler's result (service_fn): a          *)
(* response is written out; an Err ends the connection with no response.   *)
(***************************************************************************)
Respond(res) ==
    IF res.ok THEN [kind |-> "response", status |-> res.status]
    ELSE [kind |-> "aborted"]

\* the handler of task r returns res, its locals being t
Return(r, t, res) ==
    /\ tasks' = [tasks EXCEPT ![r] = [t EXCEPT !.pc = "Responded", !.result = Some(res)]]
    /\ outbound' = [outbound EXCEPT ![r] = Respond(res)]

Goto(r, t, pc) ==
    /\ tasks' = [tasks EXCEPT ![r] = [t EXCEPT !.pc = pc]]
    /\ UNCHANGED outbound

(***************************************************************************)
(* Actions.                                                                *)
(***************************************************************************)
\* ReceiveAs that, with the feature on, hands every request to handle_metrics
ReceiveAsMetricsOnly(f, r, q) ==
    /\ tasks[r].pc = "Idle"
    /\ r > 1 => tasks[r - 1].pc # "Idle"
    /\ IF f
       THEN Goto(r, [tasks[r] EXCEPT !.request = Some(q), !.handler = "handle_metrics"],
                 "Metrics")
       ELSE Goto(r, [tasks[r] EXCEPT !.request = Some(q), !.handler = "handle_request"],
                 "Received")
    /\ UNCHANGED <<expose_metrics, clients, lock, constructed, acquired, upstream, HISTOGRAM>>

\* main, lines 85-101: a request arrives and is routed to its handler, as
\* the build with the feature on (f) or off does it
ReceiveAs(f, r, q) ==
    /\ tasks[r].pc = "Idle"
    /\ r > 1 => tasks[r - 1].pc # "Idle"
    /\ IF f /\ uri_path(q.uri) = MetricsPath
       THEN Goto(r, [tasks[r] EXCEPT !.request = Some(q), !.handler = "handle_metrics"],
                 "Metrics")
       ELSE Goto(r, [tasks[r] EXCEPT !.request = Some(q), !.handler = "handle_request"],
                 "Received")
    /\ UNCHANGED <<expose_metrics, clients, lock, constructed, acquired, upstream, HISTOGRAM>>

\* main, lines 85-101, in the build this system is
Receive(r, q) == ReceiveAs(expose_metrics, r, q)

\* handle_metrics that records an observation of its own
handle_metrics_counted(r) ==
    /\ tasks[r].pc = "Metrics"
    /\ \E status \in {200, 500} : Return(r, tasks[r], Ok(status))
    /\ HISTOGRAM' = HISTOGRAM (+) SetToBag({<<tasks[r].request.v.method, "Metrics", <<"2", "0", "0">> >>})
    /\ UNCHANGED <<expose_metrics, clients, lock, constructed, acquired, upstream>>
\* handle_metrics, lines 278-307
handle_metrics(r) ==
    /\ tasks[r].pc = "Metrics"
    /\ \E status \in {200, 500} : Return(r, tasks[r], Ok(status))
    /\ UNCHANGED <<expose_metrics, clients, lock, constructed, acquired, upstream, HISTOGRAM>>

\* handle_request, line 183
ConvertMethod(r) ==
    LET t == tasks[r]
        m == convert_method(t.request.v.method)
    IN  /\ t.pc = "Received"
        /\ IF m.some
           THEN Goto(r, [t EXCEPT !.converted_method = m], "MethodValidated")
           ELSE Return(r, t, Err("MethodNotAllowed"))
        /\ UNCHANGED <<expose_metrics, clients, lock, constructed, acquired, upstream, HISTOGRAM>>

\* handle_request, lines 185-190; the task then awaits the body
ResolvePath(r) ==
    LET t == tasks[r]
        p == Path_try_from(t.converted_method.v, trimmed_path(t.request.v.uri))
    IN  /\ t.pc = "MethodValidated"
        /\ IF p.some
           THEN Goto(r, [t EXCEPT !.path = p], "PathResolved")
           ELSE Return(r, t, Err("InvalidPath"))
        /\ UNCHANGED <<expose_metrics, clients, lock, constructed, acquired, upstream, HISTOGRAM>>

\* handle_request, line 192: the body read completes, or fails
ReadBody(r) ==
    LET t == tasks[r]
    IN  /\ t.pc = "PathResolved"
        /\ \/ Goto(r, [t EXCEPT !.bytes = Some(t.request.v.body)], "BodyBuffered")
           \/ Return(r, t, Err("ChunkingRequest"))
        /\ UNCHANGED <<expose_metrics, clients, lock, constructed, acquired, upstream, HISTOGRAM>>

\* handle_request, lines 196-208
ExtractIdentity(r) ==
    LET t  == tasks[r]
        id == extract_identity(t.request.v.authorization)
    IN  /\ t.pc = "BodyBuffered"
        /\ IF id.ok
           THEN Goto(r, [t EXCEPT !.token = Some(id.token), !.bot_id = Some(id.bot_id)],
                     "IdentityExtracted")
           ELSE Return(r, t, Err(id.err))
        /\ UNCHANGED <<expose_metrics, clients, lock, constructed, acquired, upstream, HISTOGRAM>>

\* BuildRequest that always hands the buffered bytes on, even when empty
BuildRequestAlwaysBody(r) ==
    LET t  == tasks[r]
        pq == path_and_query(t.request.v.uri)
    IN  /\ t.pc = "IdentityExtracted"
        /\ IF pq.some
           THEN Goto(r, [t EXCEPT !.raw_request =
                           Some([body     |-> t.bytes,
                                 method   |-> t.converted_method.v,
                                 path     |-> t.path.v,
                                 path_str |-> pq.v])],
                     "Translated")
           ELSE Return(r, t, Err("NoPath"))
        /\ UNCHANGED <<expose_metrics, clients, lock, constructed, acquired, upstream, HISTOGRAM>>
\* handle_request, lines 210-228
BuildRequest(r) ==
    LET t  == tasks[r]
        pq == path_and_query(t.request.v.uri)
    IN  /\ t.pc = "IdentityExtracted"
        /\ IF pq.some
           THEN Goto(r, [t EXCEPT !.raw_request =
                           Some([body     |-> IF t.bytes.v = <<>> THEN None ELSE t.bytes,
                                 method   |-> t.converted_method.v,
                                 path     |-> t.path.v,
                                 path_str |-> pq.v])],
                     "Translated")
           ELSE Return(r, t, Err("NoPath"))
        /\ UNCHANGED <<expose_metrics, clients, lock, constructed, acquired, upstream, HISTOGRAM>>

\* Lock that does not wait for the mutex to be free
LockNoWait(r) ==
    /\ tasks[r].pc = "Translated"
    /\ lock' = r
    /\ acquired' = [acquired EXCEPT ![r] = @ + 1]
    /\ Goto(r, tasks[r], "Locked")
    /\ UNCHANGED <<expose_metrics, clients, constructed, upstream, HISTOGRAM>>

\* handle_request, line 235: clients.lock()
Lock(r) ==
    /\ tasks[r].pc = "Translated"
    /\ lock = 0
    /\ lock' = r
    /\ acquired' = [acquired EXCEPT ![r] = @ + 1]
    /\ Goto(r, tasks[r], "Locked")
    /\ UNCHANGED <<expose_metrics, clients, constructed, upstream, HISTOGRAM>>

\* GetClientLookup that makes a new client when the stored one was made for
\* another token
GetClientLookupRebind(r) ==
    LET t      == tasks[r]
        client == [hid |-> Len(constructed) + 1, token |-> t.token.v]
    IN  /\ t.pc = "Locked"
        /\ IF t.bot_id.v \in DOMAIN clients
           THEN IF clients[t.bot_id.v].token = t.token.v
                THEN /\ Goto(r, [t EXCEPT !.client = Some(clients[t.bot_id.v])], "Unlocking")
                     /\ UNCHANGED <<clients, constructed>>
                ELSE /\ constructed' =
                            Append(constructed, [token |-> t.token.v, bot_id |-> t.bot_id.v])
                     /\ clients' = [clients EXCEPT ![t.bot_id.v] = client]
                     /\ Goto(r, [t EXCEPT !.client = Some(client)], "Unlocking")
           ELSE Goto(r, t, "Creating") /\ UNCHANGED <<clients, constructed>>
        /\ UNCHANGED <<expose_metrics, lock, acquired, upstream, HISTOGRAM>>
\* get_client, lines 268-269: the lookup
GetClientLookup(r) ==
    LET t == tasks[r]
    IN  /\ t.pc = "Locked"
        /\ IF t.bot_id.v \in DOMAIN clients
           THEN Goto(r, [t EXCEPT !.client = Some(clients[t.bot_id.v])], "Unlocking")
           ELSE Goto(r, t, "Creating")
        /\ UNCHANGED <<expose_metrics, clients, lock, constructed, acquired, upstream, HISTOGRAM>>

\* GetClientInsert that makes the client but does not store it
GetClientInsertNoStore(r) ==
    LET t      == tasks[r]
        client == [hid |-> Len(constructed) + 1, token |-> t.token.v]
    IN  /\ t.pc = "Creating"
        /\ constructed' = Append(constructed, [token |-> t.token.v, bot_id |-> t.bot_id.v])
        /\ Goto(r, [t EXCEPT !.client = Some(client)], "Unlocking")
        /\ UNCHANGED <<expose_metrics, clients, lock, acquired, upstream, HISTOGRAM>>
\* get_client, lines 270-274: a new client is made and inserted
GetClientInsert(r) ==
    LET t      == tasks[r]
        client == [hid |-> Len(constructed) + 1, token |-> t.token.v]
    IN  /\ t.pc = "Creating"
        /\ constructed' = Append(constructed, [token |-> t.token.v, bot_id |-> t.bot_id.v])
        /\ clients' = [k \in DOMAIN clients \cup {t.bot_id.v} |->
                          IF k = t.bot_id.v THEN client ELSE clients[k]]
        /\ Goto(r, [t EXCEPT !.client = Some(client)], "Unlocking")
        /\ UNCHANGED <<expose_metrics, lock, acquired, upstream, HISTOGRAM>>

\* Unlock that keeps the guard alive into the upstream call
UnlockLate(r) ==
    /\ tasks[r].pc = "Unlocking"
    /\ Goto(r, tasks[r], "ClientObtained")
    /\ UNCHANGED <<expose_metrics, clients, lock, constructed, acquired, upstream, HISTOGRAM>>

\* handle_request, line 237: the guard is dropped
Unlock(r) ==
    /\ tasks[r].pc = "Unlocking"
    /\ lock' = 0
    /\ Goto(r, tasks[r], "ClientObtained")
    /\ UNCHANGED <<expose_metrics, clients, constructed, acquired, upstream, HISTOGRAM>>

\* handle_request, line 239: client.raw(raw_request) is called and awaited
Forward(r) ==
    LET t == tasks[r]
    IN  /\ t.pc = "ClientObtained"
        /\ upstream' = [upstream EXCEPT ![r] =
                           Append(@, [client |-> t.client.v, request |-> t.raw_request.v])]
        /\ Goto(r, t, "Forwarding")
        /\ UNCHANGED <<expose_metrics, clients, lock, constructed, acquired, HISTOGRAM>>

UpstreamStatuses == {200, 204}

\* UpstreamReturn that tries the call again when it fails
UpstreamReturnRetry(r) ==
    LET t == tasks[r]
    IN  /\ t.pc = "Forwarding"
        /\ \/ \E status \in UpstreamStatuses :
                 Goto(r, [t EXCEPT !.resp = Some(status)], "Forwarded")
           \/ IF Len(upstream[r]) < 2
              THEN Goto(r, t, "ClientObtained")
              ELSE Return(r, t, Err("RequestIssue"))
        /\ UNCHANGED <<expose_metrics, clients, lock, constructed, acquired, upstream, HISTOGRAM>>

\* handle_request, line 239: the upstream call returns a response, or fails
UpstreamReturn(r) ==
    LET t == tasks[r]
    IN  /\ t.pc = "Forwarding"
        /\ \/ \E status \in UpstreamStatuses :
                 Goto(r, [t EXCEPT !.resp = Some(status)], "Forwarded")
           \/ Return(r, t, Err("RequestIssue"))
        /\ UNCHANGED <<expose_metrics, clients, lock, constructed, acquired, upstream, HISTOGRAM>>

\* StatusCode::canonical_reason, for the statuses the upstream gives
canonical_reason(status) ==
    IF status = 200 THEN <<"O", "K">>
    ELSE IF status = 204 THEN <<"N", "o", " ", "C", "o", "n", "t", "e", "n", "t">>
    ELSE <<"<", "u", "n", "k", "n", "o", "w", "n", ">">>

\* resp.status().to_string(): StatusCode's Display, the code and its reason
status_to_string(status) == to_string(status) \o <<" ">> \o canonical_reason(status)

\* Finish that records no observation
FinishNoObserve(r) ==
    LET t == tasks[r]
    IN  /\ t.pc = "Forwarded"
        /\ Return(r, t, Ok(t.resp.v))
        /\ UNCHANGED <<expose_metrics, clients, lock, constructed, acquired, upstream, HISTOGRAM>>

\* handle_request, lines 241-249: the observation, in the build with the
\* feature on (f), none in the other
Observe(f, r) ==
    LET t == tasks[r]
    IN  HISTOGRAM' =
            IF f
            THEN HISTOGRAM (+) SetToBag({<<t.request.v.method, path_name(t.path.v),
                                          status_to_string(t.resp.v)>>})
            ELSE HISTOGRAM

\* handle_request, line 253: Ok(resp)
FinishReturn(r) ==
    LET t == tasks[r]
    IN  /\ t.pc = "Forwarded"
        /\ Return(r, t, Ok(t.resp.v))
        /\ UNCHANGED <<expose_metrics, clients, lock, constructed, acquired, upstream>>

\* handle_request, lines 241-253: the observation, then Ok(resp)
Finish(r) == FinishReturn(r) /\ Observe(expose_metrics, r)

\* Cancel that tears down the client of the abandoned request
CancelTeardown(r) ==
    /\ tasks[r].pc \in {"PathResolved", "Forwarding"}
    /\ tasks' = [tasks EXCEPT ![r].pc = "Cancelled"]
    /\ outbound' = [outbound EXCEPT ![r] = [kind |-> "aborted"]]
    /\ clients' = [k \in DOMAIN clients \ (IF tasks[r].bot_id.some THEN {tasks[r].bot_id.v} ELSE {})
                      |-> clients[k]]
    /\ UNCHANGED <<expose_metrics, lock, constructed, acquired, upstream, HISTOGRAM>>

\* the connection goes away while the task is suspended: its future is dropped
Cancel(r) ==
    /\ tasks[r].pc \in {"PathResolved", "Forwarding"}
    /\ tasks' = [tasks EXCEPT ![r].pc = "Cancelled"]
    /\ outbound' = [outbound EXCEPT ![r] = [kind |-> "aborted"]]
    /\ UNCHANGED <<expose_metrics, clients, lock, constructed, acquired, upstream, HISTOGRAM>>

(***************************************************************************)
(* The requests the model sends.                                           *)
(***************************************************************************)
U_gateway == api_url \o S_gateway
U_messages == api_url \o S_channels \o <<"/", "5", "/">> \o S_messages

\* request targets: with and without the versioned prefix, with a query, with
\* the prefix text again later in the path and in the query, unknown routes
Uris ==
    { None,
      Some(U_gateway),
      Some(<<"/">> \o S_gateway),
      Some(U_messages \o <<"?", "a", "=", "1">>),
      Some(U_gateway \o <<"?", "u", "=">> \o api_url \o <<"x">>),
      Some(<<"/">> \o S_gateway \o <<"?", "u", "=">> \o api_url \o <<"x">>),
      Some(api_url \o U_gateway),
      Some(api_url \o S_channels \o <<"/", "5">> \o api_url \o <<"/">> \o S_messages),
      Some(MetricsPath),
      Some(<<"/", "x">>) }

Methods == {"GET", "POST", "PUT", "PATCH", "DELETE", "TRACE", "HEAD"}

Bodies == { <<>>, <<104, 105>> }

SegAlphabet == {"M", "Q", "g", "=", "!"}

RECURSIVE SeqsUpTo(_, _)
SeqsUpTo(S, n) ==
    IF n = 0 THEN { <<>> }
    ELSE LET shorter == SeqsUpTo(S, n - 1)
         IN  shorter \cup { Append(s, c) : s \in shorter, c \in S }

\* base64 of "123", "0123", "+5", "18446744073709551615" and "18446744073709551616"
LongSegments ==
    { <<"M", "T", "I", "z">>,
      <<"M", "D", "E", "y", "M", "w", "=", "=">>,
      <<"K", "z", "U", "=">>,
      <<"M", "T", "g", "0", "N", "D", "Y", "3", "N", "D", "Q", "w", "N", "z", "M",
        "3", "M", "D", "k", "1", "N", "T", "E", "2", "M", "T", "U", "=">>,
      <<"M", "T", "g", "0", "N", "D", "Y", "3", "N", "D", "Q", "w", "N", "z", "M",
        "3", "M", "D", "k", "1", "N", "T", "E", "2", "M", "T", "Y", "=">> }

Segments == SeqsUpTo(SegAlphabet, MaxSegLen) \cup LongSegments

CredPrefixes == { <<>>, Bot_, <<"b", "o", "t", " ">>, Bot_ \o Bot_ }

CredSuffixes == { <<>>, <<".", "s", ".", "p">> }

Credentials == { pre \o seg \o suf : pre \in CredPrefixes, seg \in Segments, suf \in CredSuffixes }

Request(method, uri, authorization, body) ==
    [method |-> method, uri |-> uri, authorization |-> authorization, body |-> body]

C_A1 == Bot_ \o <<"M", "Q", ".", "s">>
C_A2 == <<"M", "Q", "=", "=">>
C_B == Bot_ \o <<"M", "g", ".", "s">>

FewAuthorizations ==
    { None, Some(<<"M", OBS>>), Some(C_A1), Some(<<"!", ".", "s">>) }

\* one request at a time: every method, target and body with a few credentials,
\* and every credential on one good request
SeqRequests ==
    { Request(m, u, a, b) : m \in Methods, u \in Uris, a \in FewAuthorizations, b \in Bodies }
    \cup { Request("GET", Some(U_gateway), Some(c), <<>>) : c \in Credentials }

\* concurrent requests: two credentials of one bot, another bot, and requests
\* that fail before the registry
ConcRequests ==
    { Request("GET", Some(U_gateway), Some(C_A1), <<>>),
      Request("GET", Some(U_gateway), Some(C_A2), <<>>),
      Request("POST", Some(U_messages), Some(C_B), <<104, 105>>),
      Request("TRACE", Some(U_gateway), Some(C_A1), <<>>),
      Request("GET", Some(U_gateway), None, <<>>),
      Request("GET", Some(MetricsPath), None, <<>>) }

\* requests that contend for the registry lock: two credentials of one bot
\* and another bot; and one that is served by handle_metrics
LiveRequests ==
    { Request("GET", Some(U_gateway), Some(C_A1), <<>>),
      Request("GET", Some(U_gateway), Some(C_A2), <<>>),
      Request("POST", Some(U_messages), Some(C_B), <<104, 105>>),
      Request("GET", Some(MetricsPath), None, <<>>) }

(***************************************************************************)
(* Specifications.                                                         *)
(***************************************************************************)
Step(r, requests) ==
    \/ \E q \in requests : Receive(r, q)
    \/ handle_metrics(r)
    \/ ConvertMethod(r)
    \/ ResolvePath(r)
    \/ ReadBody(r)
    \/ ExtractIdentity(r)
    \/ BuildRequest(r)
    \/ Lock(r)
    \/ GetClientLookup(r)
    \/ GetClientInsert(r)
    \/ Unlock(r)
    \/ Forward(r)
    \/ UpstreamReturn(r)
    \/ Finish(r)
    \/ Cancel(r)

\* concurrent request tasks
Next == \E r \in Tasks : Step(r, ConcRequests)

Spec == Init /\ [][Next]_vars

\* a single request task, over the whole input set
NextSeq == Step(1, SeqRequests)

SpecSeq == Init /\ [][NextSeq]_vars

\* the steps a request task takes by itself once its request is in, its
\* body read and its upstream call returning and never dropped
Run(r) ==
    \/ handle_metrics(r)
    \/ ConvertMethod(r)
    \/ ResolvePath(r)
    \/ ReadBody(r)
    \/ ExtractIdentity(r)
    \/ BuildRequest(r)
    \/ Lock(r)
    \/ GetClientLookup(r)
    \/ GetClientInsert(r)
    \/ Unlock(r)
    \/ Forward(r)
    \/ UpstreamReturn(r)
    \/ Finish(r)

NextLive == \E r \in Tasks : (\E q \in LiveRequests : Receive(r, q)) \/ Run(r)

\* the steps of Run other than the two that only compute on the task's own
\* data (ResolvePath, ExtractIdentity)
Polled(r) ==
    \/ handle_metrics(r)
    \/ ConvertMethod(r)
    \/ ReadBody(r)
    \/ BuildRequest(r)
    \/ Lock(r)
    \/ GetClientLookup(r)
    \/ GetClientInsert(r)
    \/ Unlock(r)
    \/ Forward(r)
    \/ UpstreamReturn(r)
    \/ Finish(r)

\* where ResolvePath and ExtractIdentity are enabled, and nothing else of the task
Computing == {"MethodValidated", "BodyBuffered"}

\* concurrent request tasks that the runtime schedules fairly: a task that
\* can take a step is polled again and takes it; every body read and every
\* upstream call returns and no request is dropped (Cancel is left out).
\* The fairness of ResolvePath and ExtractIdentity, WF_vars of each, is
\* written by its meaning: they are enabled exactly at the positions of
\* Computing and leave them, so the task is again and again elsewhere.
SpecLive ==
    /\ Init /\ [][NextLive]_vars
    /\ \A r \in Tasks : WF_vars(Polled(r))
    /\ \A r \in Tasks : []<>(tasks[r].pc \notin Computing)

(***************************************************************************)
(* Properties.                                                             *)
(***************************************************************************)
InCritical == {"Locked", "Creating", "Unlocking"}

Suspended == {"PathResolved", "Forwarding"}

\* C1: whatever the interleaving, Client::new runs at most once per bot
\* identity, the registry maps each identity to that one handle, and every
\* request of an identity (whatever its credential string) holds that handle.
C1_OneHandlePerIdentity ==
    /\ \A i, j \in DOMAIN constructed :
          constructed[i].bot_id = constructed[j].bot_id => i = j
    /\ \A id \in DOMAIN clients :
          /\ clients[id].hid \in DOMAIN constructed
          /\ constructed[clients[id].hid].bot_id = id
    /\ \A r \in Tasks :
          tasks[r].client.some =>
              /\ tasks[r].bot_id.v \in DOMAIN clients
              /\ clients[tasks[r].bot_id.v] = tasks[r].client.v
    /\ \A a, b \in Tasks :
          (tasks[a].client.some /\ tasks[b].client.some /\ tasks[a].bot_id = tasks[b].bot_id)
              => tasks[a].client = tasks[b].client

\* C1 witness: two requests in flight together, with different credential
\* strings of one identity, hold the same handle
C1_Witness ==
    \E a, b \in Tasks :
        /\ a # b
        /\ tasks[a].pc = "Forwarding" /\ tasks[b].pc = "Forwarding"
        /\ tasks[a].request.v.authorization # tasks[b].request.v.authorization
        /\ tasks[a].token # tasks[b].token
        /\ tasks[a].bot_id = tasks[b].bot_id
        /\ tasks[a].client = tasks[b].client
        /\ Len(constructed) = 1

\* C2: the registry mutex is held only by a task inside the lookup-or-insert
\* step, never by a task suspended in the body read or the upstream call; so
\* a task ready to take the lock can take it whenever no task is inside that
\* step, however many are suspended; and distinct identities get distinct
\* handles.
C2_LockOnlyAroundLookup ==
    /\ \A r \in Tasks : lock = r <=> tasks[r].pc \in InCritical
    /\ \A r \in Tasks : tasks[r].pc \in Suspended => lock # r
    /\ \A b \in Tasks :
          (tasks[b].pc = "Translated" /\ \A a \in Tasks : tasks[a].pc \notin InCritical)
              => ENABLED Lock(b)
    /\ \A a, b \in Tasks :
          (tasks[a].client.some /\ tasks[b].client.some /\ tasks[a].bot_id # tasks[b].bot_id)
              => tasks[a].client.v.hid # tasks[b].client.v.hid

\* C2 witness: while one request is blocked in its upstream call, a request of
\* another identity has got its own handle and completed
C2_Witness ==
    \E a, b \in Tasks :
        /\ tasks[a].pc = "Forwarding"
        /\ tasks[b].pc = "Responded" /\ tasks[b].result.v.ok
        /\ upstream[b] # <<>>
        /\ tasks[a].bot_id # tasks[b].bot_id
        /\ tasks[a].client # tasks[b].client
        /\ constructed[tasks[a].client.v.hid].token = tasks[a].token.v
        /\ tasks[a].client.v.hid < tasks[b].client.v.hid

\* C3: the registry only grows: an entry, once made, is never removed or
\* replaced by any step, whatever happens to the request that made it.
C3_RegistryOnlyGrows ==
    [][\A id \in DOMAIN clients : id \in DOMAIN clients' /\ clients'[id] = clients[id]]_vars

\* C3 witness: the request that created an entry was abandoned in its upstream
\* call, another one's upstream call failed, and the entry is still there
C3_Witness ==
    \E a, b \in Tasks :
        /\ tasks[a].pc = "Cancelled" /\ upstream[a] # <<>>
        /\ constructed[tasks[a].client.v.hid].token = tasks[a].token.v
        /\ tasks[b].pc = "Responded" /\ tasks[b].result.v = Err("RequestIssue")
        /\ tasks[a].bot_id.v \in DOMAIN clients
        /\ clients[tasks[a].bot_id.v] = tasks[a].client.v
        /\ tasks[b].bot_id.v \in DOMAIN clients

\* the positions of handle_request, in program order
PcOrder ==
    <<"Received", "MethodValidated", "PathResolved", "BodyBuffered", "IdentityExtracted",
      "Translated", "Locked", "Creating", "Unlocking", "ClientObtained", "Forwarding",
      "Forwarded", "Responded">>

Ord(pc) == CHOOSE i \in 1..Len(PcOrder) : PcOrder[i] = pc

\* the dispatch state (1 Received .. 8 Responded) a position belongs to
Stage(pc) ==
    CASE pc = "Received"        -> 1
      [] pc = "MethodValidated" -> 2
      [] pc = "PathResolved"    -> 3
      [] pc = "BodyBuffered"    -> 4
      [] pc \in {"IdentityExtracted", "Translated", "Locked", "Creating", "Unlocking"} -> 5
      [] pc \in {"ClientObtained", "Forwarding"} -> 6
      [] pc = "Forwarded"       -> 7
      [] pc = "Responded"       -> 8

\* what task r has done so far, step by step in program order
StepsDone(r) ==
    << tasks[r].converted_method.some, tasks[r].path.some, tasks[r].bytes.some,
       tasks[r].bot_id.some, tasks[r].raw_request.some, acquired[r] > 0,
       tasks[r].client.some, upstream[r] # <<>>, tasks[r].resp.some >>

\* the step (an index of StepsDone) at which a failure arises
FailStep(err) ==
    CASE err = "MethodNotAllowed" -> 1
      [] err = "InvalidPath"      -> 2
      [] err = "ChunkingRequest"  -> 3
      [] err \in {"MissingAuthorization", "Base64Error", "EncodingError", "ParseError"} -> 4
      [] err = "NoPath"           -> 5
      [] err = "RequestIssue"     -> 9

ByDispatch(r) == tasks[r].handler = "handle_request"

Failed(r) == tasks[r].result.some /\ ~tasks[r].result.v.ok

C4_NoLaterStep ==
    \A r \in Tasks :
        ByDispatch(r) =>
            LET done == StepsDone(r)
                q    == tasks[r].request.v
                m    == convert_method(q.method)
            IN  /\ \A i \in 2..9 : done[i] => done[i - 1]
                /\ Len(upstream[r]) <= 1 /\ acquired[r] <= 1
                /\ Failed(r) =>
                      LET err == tasks[r].result.v.err
                      IN  /\ \A i \in 1..9 : done[i] <=> i < FailStep(err)
                          /\ ~m.some => err = "MethodNotAllowed"
                          /\ (m.some /\ ~Path_try_from(m.v, trimmed_path(q.uri)).some)
                                => err = "InvalidPath"
                          /\ (done[3] /\ ~extract_identity(q.authorization).ok)
                                => err = extract_identity(q.authorization).err

C4_Transition ==
    \A r \in Tasks :
        (ByDispatch(r) /\ tasks'[r].pc # tasks[r].pc) =>
            LET p == tasks[r].pc
                q == tasks'[r].pc
            IN  IF q = "Cancelled" THEN p \in Suspended
                ELSE /\ p \notin {"Responded", "Cancelled"}
                     /\ Ord(q) > Ord(p)
                     /\ IF q = "Responded"
                        THEN tasks'[r].result.v.ok => p = "Forwarded"
                        ELSE Stage(q) <= Stage(p) + 1

\* C4: a request moves through Received, MethodValidated, PathResolved,
\* BodyBuffered, IdentityExtracted, ClientObtained, Forwarded, Responded in
\* that order, never back and never skipping one; a failing step takes it
\* straight to Responded, nothing of a later step has then been done, and
\* the failure reported is that of the earliest failing step.
C4_StrictOrder == [][C4_Transition]_vars /\ []C4_NoLaterStep

\* C4 witness: a request failed at identity extraction, on a credential that
\* is base64 and UTF-8 but no number, with its body read and nothing later done
C4_Witness ==
    \E r \in Tasks :
        /\ tasks[r].pc = "Responded" /\ tasks[r].result.v = Err("ParseError")
        /\ tasks[r].bytes.some /\ acquired[r] = 0 /\ upstream[r] = <<>>

\* the class (4xx, 5xx) of the status the error taxonomy gives a failure
TaxonomyClass(err) ==
    IF err \in {"ChunkingRequest", "RequestIssue", "MakingResponseBody"} THEN 5 ELSE 4

\* C5: every failure of a request becomes an outbound HTTP response whose
\* status is the one the taxonomy gives that kind of failure.
C5_FailuresAnswered ==
    \A r \in Tasks :
        Failed(r) =>
            /\ outbound[r].kind = "response"
            /\ outbound[r].status \div 100 = TaxonomyClass(tasks[r].result.v.err)

AllowedMethods == {"GET", "POST", "PUT", "PATCH", "DELETE"}

NoCredential(q) ==
    \/ ~q.authorization.some
    \/ \E i \in 1..Len(q.authorization.v) : q.authorization.v[i] = OBS

\* C7 as stated: a request with no readable Authorization header ends with
\* MissingAuthorization, and no upstream call is made for it.
C7_Original ==
    \A r \in Tasks :
        (ByDispatch(r) /\ NoCredential(tasks[r].request.v)) =>
            /\ upstream[r] = <<>>
            /\ tasks[r].pc = "Responded" => tasks[r].result.v = Err("MissingAuthorization")

\* C7 as amended: a request with no readable Authorization header whose
\* method, path and body steps succeeded ends with MissingAuthorization; and
\* whether or not it gets that far, no upstream call is made for it.
C7_MissingCredential ==
    \A r \in Tasks :
        (ByDispatch(r) /\ NoCredential(tasks[r].request.v)) =>
            /\ upstream[r] = <<>>
            /\ (tasks[r].pc = "Responded" /\ tasks[r].bytes.some)
                  => tasks[r].result.v = Err("MissingAuthorization")
            /\ (tasks[r].bytes.some /\ tasks[r].pc # "BodyBuffered")
                  => tasks[r].pc = "Responded"

\* C7 witness: a request whose Authorization value is not text has failed so
C7_Witness ==
    \E r \in Tasks :
        /\ ByDispatch(r)
        /\ tasks[r].request.v.authorization = Some(<<"M", OBS>>)
        /\ tasks[r].bytes.some
        /\ tasks[r].result = Some(Err("MissingAuthorization"))

\* the inbound path-and-query less its leading versioned prefix, if it has one
StripLeadingPrefix(s) == IF starts_with(s, api_url) THEN Drop(s, Len(api_url)) ELSE s

\* C8: the literal path-and-query forwarded is the inbound one with only the
\* leading versioned prefix removed (nothing removed when it does not start
\* with the prefix; the query and the rest of the path kept verbatim).
C8_OnlyLeadingPrefixRemoved ==
    \A r \in Tasks :
        tasks[r].raw_request.some =>
            tasks[r].raw_request.v.path_str = StripLeadingPrefix(tasks[r].request.v.uri.v)

\* the identity or the failure kind of an extraction outcome
Outcome(id) == IF id.ok THEN [ok |-> TRUE, bot_id |-> id.bot_id] ELSE id

\* the outcome task r's identity extraction had
Extracted(r) ==
    IF tasks[r].bot_id.some THEN [ok |-> TRUE, bot_id |-> tasks[r].bot_id.v]
    ELSE tasks[r].result.v

IdentityStepDone(r) ==
    /\ ByDispatch(r) /\ tasks[r].bytes.some /\ tasks[r].pc # "BodyBuffered"
    /\ ~NoCredential(tasks[r].request.v)

\* C9: with t a token that does not begin with "Bot ", the credentials t and
\* "Bot " + t have the same outcome (identity or failure kind); exactly one
\* leading "Bot " is taken off, and only in that spelling.
C9_BotPrefixInsensitive ==
    \A r \in Tasks :
        IdentityStepDone(r) =>
            LET c == tasks[r].request.v.authorization.v
            IN  /\ ~starts_with(c, Bot_)
                      => Extracted(r) = Outcome(extract_identity(Some(Bot_ \o c)))
                /\ (starts_with(c, Bot_) /\ ~starts_with(Drop(c, 4), Bot_))
                      => Extracted(r) = Outcome(extract_identity(Some(Drop(c, 4))))
                /\ starts_with(c, Bot_) => Extracted(r) = Outcome(decode_id(Drop(c, 4)))
                /\ tasks[r].token.some
                      => tasks[r].token.v = IF starts_with(c, Bot_) THEN Drop(c, 4) ELSE c

\* C9 witness: a credential with the prefix and one without it, both extracted
C9_Witness ==
    \E r \in Tasks :
        /\ IdentityStepDone(r)
        /\ tasks[r].request.v.authorization.v = Bot_ \o <<"M", "Q", ".", "s", ".", "p">>
        /\ tasks[r].bot_id = Some(<<1>>)
        /\ tasks[r].token = Some(<<"M", "Q", ".", "s", ".", "p">>)

\* the failure the first segment of credential c must give, "none" if it is good
SegmentFailure(c) ==
    LET seg   == split_first(IF starts_with(c, Bot_) THEN Drop(c, 4) ELSE c, ".")
        bytes == base64_decode(seg)
    IN  IF ~bytes.some THEN "Base64Error"
        ELSE IF ~IsUtf8(bytes.v) THEN "EncodingError"
        ELSE IF ~parse_u64(bytes.v).some THEN "ParseError"
        ELSE "none"

BadSegment(r) ==
    /\ ByDispatch(r) /\ ~NoCredential(tasks[r].request.v)
    /\ SegmentFailure(tasks[r].request.v.authorization.v) # "none"

\* C10 as stated: a request whose credential's first segment is not base64
\* fails with Base64Error, one that decodes but is not UTF-8 with
\* EncodingError, one that is UTF-8 but no unsigned integer with ParseError;
\* the registry is not accessed and no upstream call made.
C10_Original ==
    \A r \in Tasks :
        BadSegment(r) =>
            /\ acquired[r] = 0 /\ ~tasks[r].client.some /\ upstream[r] = <<>>
            /\ tasks[r].pc = "Responded"
                  => tasks[r].result.v = Err(SegmentFailure(tasks[r].request.v.authorization.v))

\* C10 as amended: the same, for a request whose method, path and body
\* steps succeeded; and whether or not it gets that far, the registry is not
\* accessed and no upstream call made for it.
C10_SegmentFailures ==
    \A r \in Tasks :
        BadSegment(r) =>
            /\ acquired[r] = 0 /\ ~tasks[r].client.some /\ upstream[r] = <<>>
            /\ (tasks[r].pc = "Responded" /\ tasks[r].bytes.some)
                  => tasks[r].result.v = Err(SegmentFailure(tasks[r].request.v.authorization.v))
            /\ (tasks[r].bytes.some /\ tasks[r].pc # "BodyBuffered")
                  => tasks[r].pc = "Responded"

\* C10 witness: a segment that is base64 but not UTF-8 has failed with
\* EncodingError
C10_Witness ==
    \E r \in Tasks :
        /\ ByDispatch(r)
        /\ tasks[r].request.v.authorization = Some(Bot_ \o <<"g", "Q", ".", "s", ".", "p">>)
        /\ tasks[r].bytes.some
        /\ tasks[r].result = Some(Err("EncodingError"))

\* the padded standard base64 text of a run of bytes
RECURSIVE Base64Text(_)
Base64Text(b) ==
    IF b = <<>> THEN <<>>
    ELSE IF Len(b) = 1
    THEN << B64Alphabet[b[1] \div 4 + 1], B64Alphabet[(b[1] % 4) * 16 + 1], "=", "=" >>
    ELSE IF Len(b) = 2
    THEN << B64Alphabet[b[1] \div 4 + 1],
            B64Alphabet[(b[1] % 4) * 16 + b[2] \div 16 + 1],
            B64Alphabet[(b[2] % 16) * 4 + 1], "=" >>
    ELSE << B64Alphabet[b[1] \div 4 + 1],
            B64Alphabet[(b[1] % 4) * 16 + b[2] \div 16 + 1],
            B64Alphabet[(b[2] % 16) * 4 + b[3] \div 64 + 1],
            B64Alphabet[(b[3] % 64) + 1] >> \o Base64Text(Drop(b, 3))

\* the decimal text of identity id, as bytes
DecimalText(id) == [i \in 1..Len(id) |-> 48 + id[i]]

\* the credential of task r less its leading "Bot "
Stripped(r) ==
    LET c == tasks[r].request.v.authorization.v
    IN  IF starts_with(c, Bot_) THEN Drop(c, 4) ELSE c

\* task r's identity step is done and its credential holds no '.'
NoDelimiter(r) ==
    /\ IdentityStepDone(r)
    /\ \A i \in 1..Len(Stripped(r)) : Stripped(r)[i] # "."

\* identities whose base64 decimal text is among the credentials
WholeIds == {<<1>>, <<2>>, <<1, 2, 3>>, U64Max}

\* C11 as stated: a credential with no '.' is decoded whole: it has the
\* outcome the same value has as a first segment, and extraction succeeds
\* with identity n exactly when the whole string is the base64 encoding of
\* the decimal text of n.
C11_Original ==
    \A r \in Tasks :
        NoDelimiter(r) =>
            /\ Extracted(r) = Outcome(extract_identity(
                                  Some(tasks[r].request.v.authorization.v \o <<".", "s">>)))
            /\ \A id \in WholeIds :
                  Stripped(r) = Base64Text(DecimalText(id))
                      => Extracted(r) = [ok |-> TRUE, bot_id |-> id]
            /\ Extracted(r).ok
                  => Stripped(r) = Base64Text(DecimalText(Extracted(r).bot_id))

\* C11 as amended: a credential with no '.' is decoded whole: it has the
\* outcome the same value has as a first segment; extraction succeeds with
\* identity n whenever the whole string is the base64 encoding of the
\* decimal text of n, and exactly when the whole string base64-decodes
\* (padding may be left off) to UTF-8 text that parses as the unsigned
\* integer n (a leading '+' and leading zeros are accepted); otherwise it
\* fails with the decode, encoding or format failure of that value.
C11_NoDelimiter ==
    \A r \in Tasks :
        NoDelimiter(r) =>
            LET bytes == base64_decode(Stripped(r))
            IN  /\ Extracted(r) = Outcome(extract_identity(
                                      Some(tasks[r].request.v.authorization.v \o <<".", "s">>)))
                /\ \A id \in WholeIds :
                      Stripped(r) = Base64Text(DecimalText(id))
                          => Extracted(r) = [ok |-> TRUE, bot_id |-> id]
                /\ Extracted(r).ok
                      <=> (bytes.some /\ IsUtf8(bytes.v) /\ parse_u64(bytes.v).some)
                /\ Extracted(r).ok => Extracted(r).bot_id = parse_u64(bytes.v).v
                /\ ~Extracted(r).ok
                      => Extracted(r) =
                            Err(SegmentFailure(tasks[r].request.v.authorization.v))

\* C11 witness: the credential "MTIz", base64 of "123" with no '.', has
\* given identity 123
C11_Witness ==
    \E r \in Tasks :
        /\ NoDelimiter(r)
        /\ tasks[r].request.v.authorization = Some(<<"M", "T", "I", "z">>)
        /\ tasks[r].bot_id = Some(<<1, 2, 3>>)

\* C12: the translated request has no body exactly when the inbound body is
\* empty; a non-empty inbound body is carried byte for byte, in the
\* translated request and in the upstream call made with it.
C12_BodyCarried ==
    \A r \in Tasks :
        tasks[r].raw_request.some =>
            LET inbound == tasks[r].request.v.body
                out     == tasks[r].raw_request.v.body
            IN  /\ out = None <=> inbound = <<>>
                /\ inbound # <<>> => out = Some(inbound)
                /\ \A i \in DOMAIN upstream[r] : upstream[r][i].request.body = out

\* C12 witness: one request with an empty body and one with the body "hi"
\* have both been forwarded
C12_Witness ==
    \E r, o \in Tasks :
        /\ upstream[r] # <<>> /\ upstream[o] # <<>>
        /\ tasks[r].request.v.body = <<>>
        /\ upstream[r][1].request.body = None
        /\ tasks[o].request.v.body = <<104, 105>>
        /\ upstream[o][1].request.body = Some(<<104, 105>>)

\* the upstream calls of every request task, and what came back of them
C13_Calls ==
    \A r \in Tasks :
        LET t == tasks[r]
        IN  /\ Len(upstream[r]) <= 1
            /\ upstream[r] # <<>>
                  => /\ ByDispatch(r)
                     /\ t.client.some /\ t.raw_request.some
                     /\ t.pc \notin {"Unlocking", "ClientObtained"}
                     /\ upstream[r][1] = [client |-> t.client.v, request |-> t.raw_request.v]
            /\ (t.client.some /\ t.pc \notin {"Unlocking", "ClientObtained"})
                  => Len(upstream[r]) = 1
            /\ (t.pc = "Responded" /\ upstream[r] # <<>>)
                  => \/ t.resp.some /\ t.result = Some(Ok(t.resp.v))
                     \/ ~t.resp.some /\ t.result = Some(Err("RequestIssue"))

\* a step of a task that has its client leaves the registry as it is
C13_ForwardFrame ==
    \A r \in Tasks :
        (tasks[r].pc \in {"ClientObtained", "Forwarding", "Forwarded"} /\ tasks'[r] # tasks[r])
            => clients' = clients /\ constructed' = constructed

\* C13: a request makes at most one upstream call, exactly one if and only
\* if its steps up to ClientObtained succeeded; the call's response or
\* failure is returned with no second attempt; forwarding leaves the
\* registry unchanged.
C13_OneUpstreamCall == []C13_Calls /\ [][C13_ForwardFrame]_vars

\* C13 witness: a request whose one upstream call failed has ended with
\* RequestIssue, the registry holding its entry
C13_Witness ==
    \E r \in Tasks :
        /\ tasks[r].pc = "Responded"
        /\ Len(upstream[r]) = 1
        /\ tasks[r].result = Some(Err("RequestIssue"))
        /\ DOMAIN clients = {tasks[r].bot_id.v}

\* task r's upstream call returned a response and r has run to its end
Observed(r) == ByDispatch(r) /\ tasks[r].pc = "Responded" /\ tasks[r].resp.some

\* the labels of the observation of task r
Labels(r) ==
    <<tasks[r].request.v.method, path_name(tasks[r].path.v),
      status_to_string(tasks[r].resp.v)>>

\* C14: with metrics enabled, every request whose upstream call returned a
\* response has added exactly one observation, labelled with its method, its
\* route's name and the response's status; the observations are as many as
\* those requests, and a request that failed at any step (an upstream
\* failure too) has added none.
C14_OneObservationPerResponse ==
    expose_metrics =>
        /\ BagCardinality(HISTOGRAM) = Cardinality({r \in Tasks : Observed(r)})
        /\ \A r \in Tasks :
              Observed(r) =>
                  CopiesIn(Labels(r), HISTOGRAM) =
                      Cardinality({o \in Tasks : Observed(o) /\ Labels(o) = Labels(r)})
        /\ \A l \in BagToSet(HISTOGRAM) : \E r \in Tasks : Observed(r) /\ Labels(r) = l

\* C14 witness: with metrics enabled, one request was answered 200 and one
\* failed upstream; there is the one observation of the first
C14_Witness ==
    /\ expose_metrics
    /\ \E r, o \in Tasks :
          /\ Observed(r)
          /\ Labels(r) = <<"GET", path_name(tasks[r].path.v), <<"2", "0", "0", " ", "O", "K">> >>
          /\ tasks[o].result = Some(Err("RequestIssue"))
          /\ HISTOGRAM = SetToBag({Labels(r)})

\* a request served by handle_metrics has run no step of handle_request
C15_MetricsLocals ==
    \A r \in Tasks :
        tasks[r].handler = "handle_metrics" =>
            LET t == tasks[r]
            IN  /\ t.pc \in {"Metrics", "Responded"}
                /\ ~t.converted_method.some /\ ~t.path.some /\ ~t.bytes.some
                /\ ~t.token.some /\ ~t.bot_id.some /\ ~t.raw_request.some
                /\ ~t.client.some /\ ~t.resp.some
                /\ acquired[r] = 0 /\ lock # r /\ upstream[r] = <<>>

\* its steps leave the registry, the lock and the observations as they are
C15_MetricsFrame ==
    \A r \in Tasks :
        (tasks'[r].handler = "handle_metrics" /\ tasks'[r] # tasks[r])
            => UNCHANGED <<clients, constructed, lock, HISTOGRAM>>

\* C15: a request served by the metrics endpoint never enters the dispatch
\* loop: no method validation, identity extraction or upstream call, no
\* acquisition of the registry lock, and the registry and the recorded
\* observations are left unchanged.
C15_MetricsOutsideDispatch == []C15_MetricsLocals /\ [][C15_MetricsFrame]_vars

\* C15 witness: /metrics has been served while the registry holds a handle
\* and an observation is recorded
C15_Witness ==
    \E r \in Tasks :
        /\ tasks[r].handler = "handle_metrics"
        /\ tasks[r].pc = "Responded"
        /\ tasks[r].result = Some(Ok(200))
        /\ DOMAIN clients # {}
        /\ HISTOGRAM # EmptyBag

\* C16: the metrics endpoint is GET-only: a request to the metrics path is
\* served the snapshot only when its method is GET.
C16_MetricsGetOnly ==
    \A r \in Tasks :
        tasks[r].handler = "handle_metrics" => tasks[r].request.v.method = "GET"

\* a step of task r as the build with the feature on (f) or off takes it,
\* the observations left aside
StepAs(f, r, requests) ==
    \/ \E q \in requests : ReceiveAs(f, r, q)
    \/ handle_metrics(r)
    \/ ConvertMethod(r)
    \/ ResolvePath(r)
    \/ ReadBody(r)
    \/ ExtractIdentity(r)
    \/ BuildRequest(r)
    \/ Lock(r)
    \/ GetClientLookup(r)
    \/ GetClientInsert(r)
    \/ Unlock(r)
    \/ Forward(r)
    \/ UpstreamReturn(r)
    \/ FinishReturn(r)
    \/ Cancel(r)

\* the requests that target the metrics path
MetricsTargets == {q \in ConcRequests : uri_path(q.uri) = MetricsPath}

\* no request received so far targets the metrics path
NoMetricsTarget ==
    \A r \in Tasks : tasks[r].request.some => tasks[r].request.v \notin MetricsTargets

\* a step of either build is, the observations aside, a step of the other
C17_SameStep ==
    NoMetricsTarget' =>
        \A r \in Tasks :
            tasks'[r] # tasks[r] => StepAs(~expose_metrics, r, ConcRequests)

\* C17: over requests none of which targets /metrics, the build with
\* metrics and the build without take the same steps from the same state:
\* the same per-request outcomes, upstream calls and registry contents; they
\* differ only in the observations recorded (none without the feature).
C17_MetricsTransparent ==
    /\ [][C17_SameStep]_vars
    /\ [](NoMetricsTarget => \A r \in Tasks : tasks[r].handler # "handle_metrics")
    /\ [](~expose_metrics => HISTOGRAM = EmptyBag)

\* C17 witness: with metrics enabled and no request to /metrics, one
\* request was answered and observed and another failed upstream
C17_Witness ==
    /\ expose_metrics /\ NoMetricsTarget
    /\ HISTOGRAM # EmptyBag
    /\ \E r, o \in Tasks :
          /\ tasks[r].result = Some(Ok(200))
          /\ tasks[o].result = Some(Err("RequestIssue"))
          /\ upstream[r] # <<>> /\ upstream[o] # <<>>

\* every handle a task holds is the stored one, made with the token of the
\* task that inserted it; the task that inserts is the first of its identity
\* to have taken the lock
C18_Binding ==
    \A r \in Tasks :
        LET t == tasks[r]
        IN  /\ t.client.some
                  => /\ t.bot_id.v \in DOMAIN clients
                     /\ t.client.v = clients[t.bot_id.v]
                     /\ constructed[t.client.v.hid] =
                            [token |-> t.client.v.token, bot_id |-> t.bot_id.v]
            /\ t.pc = "Creating"
                  => \A o \in Tasks \ {r} : tasks[o].bot_id = t.bot_id => acquired[o] = 0

\* the binding is made from the inserting task's token and never changed
C18_Frame ==
    /\ \A id \in DOMAIN clients : id \in DOMAIN clients' /\ clients'[id] = clients[id]
    /\ \A r \in Tasks :
          (tasks[r].pc = "Creating" /\ tasks'[r].pc # "Creating")
              => clients'[tasks[r].bot_id.v].token = tasks[r].token.v

\* C18: the handle stored for an identity stays bound to the credential of
\* the request that first took the registry lock for that identity; a later
\* request with another credential string of the same identity receives
\* that handle, and the stored binding is never updated.
C18_FirstCredentialKept == []C18_Binding /\ [][C18_Frame]_vars

\* C18 witness: a request whose token differs from the one its identity's
\* handle was made with has been given that handle and was answered
C18_Witness ==
    \E r \in Tasks :
        /\ tasks[r].client.some
        /\ tasks[r].pc = "Responded"
        /\ tasks[r].client.v.token # tasks[r].token.v
        /\ clients[tasks[r].bot_id.v].token # tasks[r].token.v

\* the requests that reached ClientObtained: get_client has given them a client
ReachedClientObtained == {r \in Tasks : tasks[r].client.some}

\* the registry holds exactly the identities of those requests
C19_RegistryIds ==
    /\ DOMAIN clients = {tasks[r].bot_id.v : r \in ReachedClientObtained}
    /\ \A r \in Tasks :
          /\ (Failed(r) /\ tasks[r].result.v.err # "RequestIssue")
                => r \notin ReachedClientObtained /\ acquired[r] = 0
          /\ tasks[r].result = Some(Err("RequestIssue"))
                => r \in ReachedClientObtained /\ tasks[r].bot_id.v \in DOMAIN clients

\* only the step that gives a request its client changes the registry
C19_Frame ==
    clients' # clients =>
        \E r \in Tasks : ~tasks[r].client.some /\ tasks'[r].client.some

\* C19: in every reachable state the identities in the registry are exactly
\* those of the requests that reached ClientObtained; a request failing at
\* method validation, path resolution, body buffering, credential lookup or
\* identity decoding leaves the registry unchanged; one whose upstream call
\* fails leaves its entry in place.
C19_RegistryIsObtainedSet == []C19_RegistryIds /\ [][C19_Frame]_vars

\* C19 witness: one request failed upstream and its identity is the only one
\* in the registry; another failed for want of a credential
C19_Witness ==
    \E r, o \in Tasks :
        /\ tasks[r].result = Some(Err("RequestIssue"))
        /\ tasks[o].result = Some(Err("MissingAuthorization"))
        /\ DOMAIN clients = {tasks[r].bot_id.v}

\* C20: with fair scheduling, and every body read and upstream call
\* returning, every request received is in the end responded to: the task
\* that took the registry lock releases it, so no request, of the same
\* identity or another, waits on the lock forever.
C20_EveryRequestResponds ==
    \A r \in Tasks :
        /\ (tasks[r].pc # "Idle") ~> (tasks[r].pc = "Responded")
        /\ (lock = r) ~> (lock # r)

\* C20 witness: a request waited for the lock another held, and every
\* request has been responded to, two of them of one identity
C20_Witness ==
    /\ \A r \in Tasks : tasks[r].pc = "Responded"
    /\ \E r, o \in Tasks :
          /\ r # o
          /\ acquired[r] = 1 /\ acquired[o] = 1
          /\ tasks[r].bot_id = tasks[o].bot_id
          /\ tasks[r].token # tasks[o].token

====
